---- MODULE Spec2Model ----
(***************************************************************************)
(* Model of the ETH EMA trend-tracking decision engine (the final variant  *)
(* of the strategy service, src/unnamed/part_001 lines 424-919) and of the *)
(* polling loop that drives one evaluation cycle after another.            *)
(*                                                                         *)
(* Numbers.  Prices, equity and PnL are JavaScript numbers parsed from     *)
(* decimal strings.  They are modelled as integers counting hundredths     *)
(* (cents); a product with a four-decimal factor (0.9995, 1.0012, ...) is  *)
(* held exactly in units of 1/PxScale cent, and toFixed(2) rounds such a   *)
(* value back to cents.  EMA values are held in units of 1/EmaScale cent,  *)
(* each step of the recurrence truncated to that unit.                     *)
(*                                                                         *)
(* Text.  The service's message strings are Chinese; the model carries     *)
(* them in English.                                                        *)
(***************************************************************************)
EXTENDS Integers, Sequences, FiniteSets, TLC

\* ------------------------------------------------------------------------
\* Bounds of the model
\* ------------------------------------------------------------------------

\* Longest price series handed to calcEMAArray on its own.
MaxPrices == 4

\* Number of free candles that end a series handed to analyze3mEntry or
\* analyze1HTrend on its own.
MaxEntryTail == 4

\* Number of free candles that end a lower-timeframe history.
MaxTail3m == 2

\* Number of free candles that end a higher-timeframe history.
MaxTail1H == 1

\* Largest count kept of the adds returned in a row.
MaxAdds == 2

\* ------------------------------------------------------------------------
\* Program constants
\* ------------------------------------------------------------------------

\* analyze1HTrend / analyze3mEntry: "if (candles.length < 100)"
MinCandles == 100

\* calcEMAArray(closes, 15) and calcEMAArray(closes, 60)
FastPeriod == 15

SlowPeriod == 60

\* CONTRACT_VAL_ETH = 0.1, in tenths of one ETH
CONTRACT_VAL_ETH == 1

\* DEFAULT_LEVERAGE, the fixed leverage ("Force 5x")
DEFAULT_LEVERAGE == 5

\* marketData.candles3m.slice(-5)
RecentCount == 5

\* units of 1/PxScale cent for products with four-decimal factors
PxScale == 100 * 100

\* units of 1/EmaScale cent for EMA values
EmaScale == 100 * 100

INSTRUMENT_ID == "ETH-USDT-SWAP"

\* ------------------------------------------------------------------------
\* Candle inputs: a flat history followed by a short free tail
\* ------------------------------------------------------------------------

\* the candle of the flat history (prices in cents)
FlatCandle == [o |-> 200, h |-> 200, l |-> 200, c |-> 200]

UpCandle == [o |-> 200, h |-> 252, l |-> 198, c |-> 250]

DownCandle == [o |-> 200, h |-> 202, l |-> 148, c |-> 150]

CandleShapes == {FlatCandle, UpCandle, DownCandle}

\* n flat candles followed by the candles of tail; ts is the candle's index
MkCandles(n, tail) ==
    [x \in 1..(n + Len(tail)) |->
        LET shape == IF x <= n THEN FlatCandle ELSE tail[x - n]
        IN  [ts |-> x, o |-> shape.o, h |-> shape.h, l |-> shape.l, c |-> shape.c]]

\* The tails of exactly n candles over S
Tails(S, n) == [1..n -> S]

\* higher-timeframe inputs: no candles at all, a flat history of MinCandles
\* candles, or a flat history followed by MaxTail1H rising or falling
\* candles that make up MinCandles candles, or one candle less
Candles1HSet ==
    {<<>>, MkCandles(MinCandles, <<>>)}
    \cup {MkCandles(MinCandles - MaxTail1H - short, t) :
             short \in {0, 1}, t \in Tails({UpCandle, DownCandle}, MaxTail1H)}

\* lower-timeframe inputs: no candles at all, or a flat history followed by
\* MaxTail3m free candles that make up MinCandles candles, or one candle less
Candles3mSet ==
    {<<>>}
    \cup {MkCandles(MinCandles - MaxTail3m - short, t) :
             short \in {0, 1}, t \in Tails(CandleShapes, MaxTail3m)}

\* ------------------------------------------------------------------------
\* Indicator engine
\* ------------------------------------------------------------------------

\* for (i = 1; i < prices.length; i++) emaArray.push(prices[i]*k + emaArray[i-1]*(1-k))
\* with k = 2/(period+1); the index i of the loop is the length of emaArray.
\* EmaLoop runs the iterations up to index last.
RECURSIVE EmaLoop(_, _, _, _)
EmaLoop(prices, period, last, emaArray) ==
    LET i == Len(emaArray) + 1
    IN  IF i > last THEN emaArray
        ELSE EmaLoop(prices, period, last,
                     Append(emaArray,
                            (2 * prices[i] * EmaScale + (period - 1) * emaArray[i - 1])
                                \div (period + 1)))

\* The same loop taken sixteen iterations at a time, which keeps the depth of
\* the evaluation small for long price series.
RECURSIVE EmaChunks(_, _, _)
EmaChunks(prices, period, emaArray) ==
    LET i    == Len(emaArray) + 1
        last == IF i + 15 < Len(prices) THEN i + 15 ELSE Len(prices)
    IN  IF i > Len(prices) THEN emaArray
        ELSE EmaChunks(prices, period, EmaLoop(prices, period, last, emaArray))

\* the sum of the first n prices
RECURSIVE SumOfFirst(_, _)
SumOfFirst(prices, n) == IF n = 0 THEN 0 ELSE prices[n] + SumOfFirst(prices, n - 1)

\* calcEMAArray seeded with the mean of the first `period` prices (of all of
\* them when there are fewer) in place of the first price
calcEMAArraySeededByMean(prices, period) ==
    IF Len(prices) = 0 THEN <<>>
    ELSE LET n == IF Len(prices) < period THEN Len(prices) ELSE period
         IN  EmaChunks(prices, period, <<(SumOfFirst(prices, n) * EmaScale) \div n>>)

\* calcEMAArray that yields nothing until it has `period` prices
calcEMAArrayFromPeriod(prices, period) ==
    IF Len(prices) < period THEN <<>>
    ELSE EmaChunks(prices, period, <<prices[1] * EmaScale>>)

calcEMAArray(prices, period) ==
    IF Len(prices) = 0 THEN <<>>
    ELSE EmaChunks(prices, period, <<prices[1] * EmaScale>>)

\* ------------------------------------------------------------------------
\* Trend classifier
\* ------------------------------------------------------------------------

\* TooFew with the slow EMA period as the threshold
TooFewForSlowPeriod(candles) == Len(candles) < SlowPeriod

\* if (candles.length < 100) return <insufficient data>, in both analyses
TooFew(candles) == Len(candles) < MinCandles

\* analyze1HTrend with the colour of the last candle as a gate of the trend
analyze1HTrendByColour(candles) ==
    IF TooFew(candles)
    THEN [direction |-> "NEUTRAL", timestamp |-> 0, description |-> "insufficient data"]
    ELSE
      LET closes == [x \in 1..Len(candles) |-> candles[x].c]
          opens  == [x \in 1..Len(candles) |-> candles[x].o]
          ema15  == calcEMAArray(closes, FastPeriod)
          ema60  == calcEMAArray(closes, SlowPeriod)
          i      == Len(closes)
          isGold  == ema15[i] > ema60[i]
          isDeath == ema15[i] < ema60[i]
          isYang  == closes[i] > opens[i]
          isYin   == closes[i] < opens[i]
      IN  IF isGold /\ isYang
          THEN [direction |-> "UP", timestamp |-> candles[i].ts,
                description |-> IF isYang THEN "up (strong / golden cross)"
                                          ELSE "up (pulling back / golden cross)"]
          ELSE IF isDeath /\ isYin
          THEN [direction |-> "DOWN", timestamp |-> candles[i].ts,
                description |-> IF isYin THEN "down (strong / death cross)"
                                         ELSE "down (rebounding / death cross)"]
          ELSE [direction |-> "NEUTRAL", timestamp |-> candles[i].ts,
                description |-> "EMAs converged"]

analyze1HTrend(candles) ==
    IF TooFew(candles)
    THEN [direction |-> "NEUTRAL", timestamp |-> 0, description |-> "insufficient data"]
    ELSE
      LET closes == [x \in 1..Len(candles) |-> candles[x].c]
          opens  == [x \in 1..Len(candles) |-> candles[x].o]
          ema15  == calcEMAArray(closes, FastPeriod)
          ema60  == calcEMAArray(closes, SlowPeriod)
          i      == Len(closes)
          isGold  == ema15[i] > ema60[i]
          isDeath == ema15[i] < ema60[i]
          isYang  == closes[i] > opens[i]
          isYin   == closes[i] < opens[i]
      IN  IF isGold
          THEN [direction |-> "UP", timestamp |-> candles[i].ts,
                description |-> IF isYang THEN "up (strong / golden cross)"
                                          ELSE "up (pulling back / golden cross)"]
          ELSE IF isDeath
          THEN [direction |-> "DOWN", timestamp |-> candles[i].ts,
                description |-> IF isYin THEN "down (strong / death cross)"
                                         ELSE "down (rebounding / death cross)"]
          ELSE [direction |-> "NEUTRAL", timestamp |-> candles[i].ts,
                description |-> "EMAs converged"]

\* ------------------------------------------------------------------------
\* Entry pattern detector
\* ------------------------------------------------------------------------

\* for (x = i-1; x >= 0; x--): the backward scan for the death zone before a
\* golden cross.  st holds the loop's variables: the index x, foundDeathZone,
\* lowestInDeathZone (extreme) and whether the loop has hit its break.
\* ScanDeathLoop runs the iterations down to index first.
\* ScanDeathLoop that keeps the higher low
RECURSIVE ScanDeathLoopHigherLow(_, _, _, _, _)
ScanDeathLoopHigherLow(ema15, ema60, lows, first, st) ==
    IF st.done \/ st.x < first THEN st
    ELSE IF ema15[st.x] < ema60[st.x]
    THEN ScanDeathLoopHigherLow(ema15, ema60, lows, first,
                       [x |-> st.x - 1, found |-> TRUE, done |-> FALSE,
                        extreme |-> IF lows[st.x] > st.extreme THEN lows[st.x]
                                                               ELSE st.extreme])
    ELSE IF st.found
    THEN [st EXCEPT !.done = TRUE]
    ELSE ScanDeathLoopHigherLow(ema15, ema60, lows, first, [st EXCEPT !.x = st.x - 1])

RECURSIVE ScanDeathLoop(_, _, _, _, _)
ScanDeathLoop(ema15, ema60, lows, first, st) ==
    IF st.done \/ st.x < first THEN st
    ELSE IF ema15[st.x] < ema60[st.x]
    THEN ScanDeathLoop(ema15, ema60, lows, first,
                       [x |-> st.x - 1, found |-> TRUE, done |-> FALSE,
                        extreme |-> IF lows[st.x] < st.extreme THEN lows[st.x]
                                                               ELSE st.extreme])
    ELSE IF st.found
    THEN [st EXCEPT !.done = TRUE]
    ELSE ScanDeathLoop(ema15, ema60, lows, first, [st EXCEPT !.x = st.x - 1])

\* the same loop taken sixteen iterations at a time (evaluation depth)
RECURSIVE ScanDeathZone(_, _, _, _)
ScanDeathZone(ema15, ema60, lows, st) ==
    IF st.done \/ st.x < 1 THEN st
    ELSE ScanDeathZone(ema15, ema60, lows,
                       ScanDeathLoop(ema15, ema60, lows,
                                     IF st.x > 16 THEN st.x - 15 ELSE 1, st))

\* the symmetric scan for the gold zone before a death cross
RECURSIVE ScanGoldLoop(_, _, _, _, _)
ScanGoldLoop(ema15, ema60, highs, first, st) ==
    IF st.done \/ st.x < first THEN st
    ELSE IF ema15[st.x] > ema60[st.x]
    THEN ScanGoldLoop(ema15, ema60, highs, first,
                      [x |-> st.x - 1, found |-> TRUE, done |-> FALSE,
                       extreme |-> IF highs[st.x] > st.extreme THEN highs[st.x]
                                                               ELSE st.extreme])
    ELSE IF st.found
    THEN [st EXCEPT !.done = TRUE]
    ELSE ScanGoldLoop(ema15, ema60, highs, first, [st EXCEPT !.x = st.x - 1])

RECURSIVE ScanGoldZone(_, _, _, _)
ScanGoldZone(ema15, ema60, highs, st) ==
    IF st.done \/ st.x < 1 THEN st
    ELSE ScanGoldZone(ema15, ema60, highs,
                      ScanGoldLoop(ema15, ema60, highs,
                                   IF st.x > 16 THEN st.x - 15 ELSE 1, st))

NoSignal(reason, structure) ==
    [signal |-> FALSE, action |-> "HOLD", sl |-> 0, reason |-> reason,
     structure |-> structure]

\* analyze3mEntry that takes a cross whatever the trend
analyze3mEntryAnyTrend(candles, trendDirection) ==
    IF TooFew(candles)
    THEN NoSignal("insufficient data", "unknown")
    ELSE
      LET closes == [x \in 1..Len(candles) |-> candles[x].c]
          highs  == [x \in 1..Len(candles) |-> candles[x].h]
          lows   == [x \in 1..Len(candles) |-> candles[x].l]
          ema15  == calcEMAArray(closes, FastPeriod)
          ema60  == calcEMAArray(closes, SlowPeriod)
          i      == Len(closes)
          currentGold == ema15[i] > ema60[i]
          structure == IF currentGold THEN "golden zone" ELSE "death zone"
          justCrossedUp   == ema15[i] > ema60[i] /\ ema15[i - 1] <= ema60[i - 1]
          justCrossedDown == ema15[i] < ema60[i] /\ ema15[i - 1] >= ema60[i - 1]
          death == ScanDeathZone(ema15, ema60, lows,
                       [x |-> i - 1, found |-> FALSE, done |-> FALSE, extreme |-> lows[i]])
          gold  == ScanGoldZone(ema15, ema60, highs,
                       [x |-> i - 1, found |-> FALSE, done |-> FALSE, extreme |-> highs[i]])
      IN  IF justCrossedUp /\ death.found
          THEN [signal |-> TRUE, action |-> "BUY", sl |-> death.extreme,
                reason |-> "1H up + 3m golden cross after death cross",
                structure |-> structure]
          ELSE IF justCrossedDown /\ gold.found
          THEN [signal |-> TRUE, action |-> "SELL", sl |-> gold.extreme,
                reason |-> "1H down + 3m death cross after golden cross",
                structure |-> structure]
          ELSE IF trendDirection = "UP"
          THEN NoSignal("1H up, waiting for 3m pullback signal", structure)
          ELSE IF trendDirection = "DOWN"
          THEN NoSignal("1H down, waiting for 3m rebound signal", structure)
          ELSE NoSignal("1H trend unclear, no entry", structure)

\* analyze3mEntry that does not look at the candle before the last
analyze3mEntryInZone(candles, trendDirection) ==
    IF TooFew(candles)
    THEN NoSignal("insufficient data", "unknown")
    ELSE
      LET closes == [x \in 1..Len(candles) |-> candles[x].c]
          highs  == [x \in 1..Len(candles) |-> candles[x].h]
          lows   == [x \in 1..Len(candles) |-> candles[x].l]
          ema15  == calcEMAArray(closes, FastPeriod)
          ema60  == calcEMAArray(closes, SlowPeriod)
          i      == Len(closes)
          currentGold == ema15[i] > ema60[i]
          structure == IF currentGold THEN "golden zone" ELSE "death zone"
          justCrossedUp   == ema15[i] > ema60[i]
          justCrossedDown == ema15[i] < ema60[i]
          death == ScanDeathZone(ema15, ema60, lows,
                       [x |-> i - 1, found |-> FALSE, done |-> FALSE, extreme |-> lows[i]])
          gold  == ScanGoldZone(ema15, ema60, highs,
                       [x |-> i - 1, found |-> FALSE, done |-> FALSE, extreme |-> highs[i]])
      IN  IF trendDirection = "UP" /\ justCrossedUp /\ death.found
          THEN [signal |-> TRUE, action |-> "BUY", sl |-> death.extreme,
                reason |-> "1H up + 3m golden cross after death cross",
                structure |-> structure]
          ELSE IF trendDirection = "DOWN" /\ justCrossedDown /\ gold.found
          THEN [signal |-> TRUE, action |-> "SELL", sl |-> gold.extreme,
                reason |-> "1H down + 3m death cross after golden cross",
                structure |-> structure]
          ELSE IF trendDirection = "UP"
          THEN NoSignal("1H up, waiting for 3m pullback signal", structure)
          ELSE IF trendDirection = "DOWN"
          THEN NoSignal("1H down, waiting for 3m rebound signal", structure)
          ELSE NoSignal("1H trend unclear, no entry", structure)

analyze3mEntry(candles, trendDirection) ==
    IF TooFew(candles)
    THEN NoSignal("insufficient data", "unknown")
    ELSE
      LET closes == [x \in 1..Len(candles) |-> candles[x].c]
          highs  == [x \in 1..Len(candles) |-> candles[x].h]
          lows   == [x \in 1..Len(candles) |-> candles[x].l]
          ema15  == calcEMAArray(closes, FastPeriod)
          ema60  == calcEMAArray(closes, SlowPeriod)
          i      == Len(closes)
          currentGold == ema15[i] > ema60[i]
          structure == IF currentGold THEN "golden zone" ELSE "death zone"
          justCrossedUp   == ema15[i] > ema60[i] /\ ema15[i - 1] <= ema60[i - 1]
          justCrossedDown == ema15[i] < ema60[i] /\ ema15[i - 1] >= ema60[i - 1]
          death == ScanDeathZone(ema15, ema60, lows,
                       [x |-> i - 1, found |-> FALSE, done |-> FALSE, extreme |-> lows[i]])
          gold  == ScanGoldZone(ema15, ema60, highs,
                       [x |-> i - 1, found |-> FALSE, done |-> FALSE, extreme |-> highs[i]])
      IN  IF trendDirection = "UP" /\ justCrossedUp /\ death.found
          THEN [signal |-> TRUE, action |-> "BUY", sl |-> death.extreme,
                reason |-> "1H up + 3m golden cross after death cross",
                structure |-> structure]
          ELSE IF trendDirection = "DOWN" /\ justCrossedDown /\ gold.found
          THEN [signal |-> TRUE, action |-> "SELL", sl |-> gold.extreme,
                reason |-> "1H down + 3m death cross after golden cross",
                structure |-> structure]
          ELSE IF trendDirection = "UP"
          THEN NoSignal("1H up, waiting for 3m pullback signal", structure)
          ELSE IF trendDirection = "DOWN"
          THEN NoSignal("1H down, waiting for 3m rebound signal", structure)
          ELSE NoSignal("1H trend unclear, no entry", structure)

\* ------------------------------------------------------------------------
\* Number conversions
\* ------------------------------------------------------------------------

\* An optional decimal string is the empty sequence (absent, undefined or "")
\* or a one-element sequence holding its value in cents.
\* parseFloat(s || "0")
ParseOrZero(s) == IF Len(s) = 0 THEN 0 ELSE s[1]

\* Number.prototype.toFixed(2) of v, given in units of 1/PxScale cent: the
\* nearest cent, the larger one when two are equally near
toFixed2(v) ==
    IF v >= 0 THEN (v + PxScale \div 2) \div PxScale
    ELSE -((-v + PxScale \div 2) \div PxScale)

Max(a, b) == IF a >= b THEN a ELSE b

Min(a, b) == IF a <= b THEN a ELSE b

\* ------------------------------------------------------------------------
\* Position risk manager (the hasPosition branch of getTradingDecision)
\* ------------------------------------------------------------------------

\* accountData.positions.find(p => p.instId === INSTRUMENT_ID), as a sequence
\* of zero or one position
RECURSIVE FindPrimary(_, _)
FindPrimary(positions, x) ==
    IF x > Len(positions) THEN <<>>
    ELSE IF positions[x].instId = INSTRUMENT_ID THEN <<positions[x]>>
    ELSE FindPrimary(positions, x + 1)

\* !!primaryPosition && parseFloat(primaryPosition.pos) > 0
HasPosition(primaryPosition) ==
    Len(primaryPosition) = 1 /\ primaryPosition[1].pos > 0

\* IsReversal without its second branch
IsReversalUpOnly(direction, isLong) ==
    direction = "UP" /\ ~isLong

\* 1. trend reversal: the verdict opposes the side of the position
IsReversal(direction, isLong) ==
    \/ direction = "UP" /\ ~isLong
    \/ direction = "DOWN" /\ isLong

\* PyramidDue with a strict comparison
PyramidDueStrictly(upl, totalEquity) == upl * PxScale > totalEquity * 500

\* 2. rolling: upl >= totalEquity * 0.05
PyramidDue(upl, totalEquity) == upl * PxScale >= totalEquity * 500

SeqMin(q) == CHOOSE v \in {q[x] : x \in DOMAIN q} : \A x \in DOMAIN q : v <= q[x]

SeqMax(q) == CHOOSE v \in {q[x] : x \in DOMAIN q} : \A x \in DOMAIN q : v >= q[x]

\* marketData.candles3m.slice(-5)
Recent(candles) ==
    LET n == Len(candles)
        k == IF n < RecentCount THEN n ELSE RecentCount
    IN  [x \in 1..k |-> candles[n - k + x]]

\* LongTargetSL without the breakeven rule
LongTargetSLTrailOnly(entryPx, currentPrice, recent3m) ==
    SeqMin([x \in DOMAIN recent3m |-> recent3m[x].l]) * 9995

\* The stop candidate of a LONG, in units of 1/PxScale cent: the technical
\* trail lowestRecent * 0.9995, raised to the breakeven entryPx * 1.0012 once
\* the price is above breakeven
LongTargetSL(entryPx, currentPrice, recent3m) ==
    LET breakEvenPrice == entryPx * (PxScale + 12)
        lowestRecent   == SeqMin([x \in DOMAIN recent3m |-> recent3m[x].l])
        trail          == lowestRecent * 9995
    IN  IF currentPrice * PxScale > breakEvenPrice
        THEN Max(trail, breakEvenPrice) ELSE trail

\* The stop candidate of a SHORT: highestRecent * 1.0005, lowered to the
\* breakeven entryPx * 0.9988 once the price is below breakeven
ShortTargetSL(entryPx, currentPrice, recent3m) ==
    LET breakEvenPrice == entryPx * (PxScale - 12)
        highestRecent  == SeqMax([x \in DOMAIN recent3m |-> recent3m[x].h])
        trail          == highestRecent * 10005
    IN  IF currentPrice * PxScale < breakEvenPrice
        THEN Min(trail, breakEvenPrice) ELSE trail

\* LongAccepts without the comparison with the existing stop
LongAcceptsAnyBelowPrice(targetSL, newSL, currentPrice) ==
    targetSL < currentPrice * PxScale

\* targetSL > newSL && targetSL < currentPrice
LongAccepts(targetSL, newSL, currentPrice) ==
    targetSL > newSL * PxScale /\ targetSL < currentPrice * PxScale

\* ShortAccepts without the comparison with the current price
ShortAcceptsAnyImprovement(targetSL, newSL, currentPrice) ==
    newSL = 0 \/ targetSL < newSL * PxScale

\* (newSL === 0 || targetSL < newSL) && targetSL > currentPrice
ShortAccepts(targetSL, newSL, currentPrice) ==
    /\ (newSL = 0 \/ targetSL < newSL * PxScale)
    /\ targetSL > currentPrice * PxScale

\* 3. trailing stop: shouldUpdate and the new stop (units of 1/PxScale cent).
\* With no lower-timeframe candle Math.min() is Infinity and Math.max() is
\* -Infinity, which no comparison of the execution rule accepts.
TrailingStop(p, currentPrice, candles3m) ==
    LET recent3m == Recent(candles3m)
        newSL    == ParseOrZero(p.slTriggerPx)
        isLong   == p.posSide = "long"
        targetSL == IF isLong THEN LongTargetSL(p.avgPx, currentPrice, recent3m)
                              ELSE ShortTargetSL(p.avgPx, currentPrice, recent3m)
        accepted == IF isLong THEN LongAccepts(targetSL, newSL, currentPrice)
                              ELSE ShortAccepts(targetSL, newSL, currentPrice)
    IN  IF Len(recent3m) = 0 THEN [shouldUpdate |-> FALSE, newSL |-> newSL * PxScale]
        ELSE IF accepted THEN [shouldUpdate |-> TRUE, newSL |-> targetSL]
        ELSE [shouldUpdate |-> FALSE, newSL |-> newSL * PxScale]

\* EvaluateRisk in which an accepted stop replaces the add by UPDATE_TPSL
EvaluateRiskStopOverrides(p, direction, totalEquity, currentPrice, candles3m) ==
    LET isLong   == p.posSide = "long"
        reversal == IsReversal(direction, isLong)
        rolling  == ~reversal /\ PyramidDue(p.upl, totalEquity)
        action2  == IF reversal THEN "CLOSE"
                    ELSE IF rolling THEN (IF isLong THEN "BUY" ELSE "SELL")
                    ELSE "HOLD"
        trail    == TrailingStop(p, currentPrice, candles3m)
        update   == action2 \in {"HOLD", "BUY", "SELL"} /\ trail.shouldUpdate
    IN  [finalAction |-> IF update THEN "UPDATE_TPSL" ELSE action2,
         finalSize   |-> IF rolling /\ ~update THEN "5%" ELSE "0",
         finalSL     |-> IF update THEN <<toFixed2(trail.newSL)>> ELSE <<>>,
         invalidationReason |-> IF rolling THEN "Rolling: Profit > 5%" ELSE ""]

\* The decision logic for an existing position p: finalAction, finalSize and
\* finalSL (the empty sequence for "", else the stop in cents)
EvaluateRisk(p, direction, totalEquity, currentPrice, candles3m) ==
    LET isLong   == p.posSide = "long"
        reversal == IsReversal(direction, isLong)
        rolling  == ~reversal /\ PyramidDue(p.upl, totalEquity)
        action2  == IF reversal THEN "CLOSE"
                    ELSE IF rolling THEN (IF isLong THEN "BUY" ELSE "SELL")
                    ELSE "HOLD"
        trail    == TrailingStop(p, currentPrice, candles3m)
        update   == action2 \in {"HOLD", "BUY", "SELL"} /\ trail.shouldUpdate
    IN  [finalAction |-> IF update /\ action2 = "HOLD" THEN "UPDATE_TPSL" ELSE action2,
         finalSize   |-> IF rolling THEN "5%" ELSE "0",
         finalSL     |-> IF update THEN <<toFixed2(trail.newSL)>> ELSE <<>>,
         invalidationReason |-> IF rolling THEN "Rolling: Profit > 5%" ELSE ""]

\* The decision logic without a position: the entry signal decides
EvaluateEntry(entry3m) ==
    IF entry3m.signal
    THEN [finalAction |-> entry3m.action, finalSize |-> "5%",
          finalSL |-> <<toFixed2(entry3m.sl * PxScale)>>, invalidationReason |-> ""]
    ELSE [finalAction |-> "HOLD", finalSize |-> "0", finalSL |-> <<>>,
          invalidationReason |-> ""]

\* ComputeLocals with the entry signal evaluated first, position or not
ComputeLocalsEntryFirst(md, ad) ==
    LET currentPrice == IF Len(md.ticker) = 0 THEN 0 ELSE md.ticker[1].last
        totalEquity  == ad.balance.totalEq
        trend1H      == analyze1HTrend(md.candles1H)
        entry3m      == analyze3mEntry(md.candles3m, trend1H.direction)
        primaryPosition == FindPrimary(ad.positions, 1)
        hasPosition  == HasPosition(primaryPosition)
        outcome      == IF hasPosition /\ ~entry3m.signal
                        THEN EvaluateRisk(primaryPosition[1], trend1H.direction,
                                          totalEquity, currentPrice, md.candles3m)
                        ELSE EvaluateEntry(entry3m)
    IN  [currentPrice |-> currentPrice, totalEquity |-> totalEquity,
         trend1H |-> trend1H, entry3m |-> entry3m,
         primaryPosition |-> primaryPosition, hasPosition |-> hasPosition,
         finalAction |-> outcome.finalAction, finalSize |-> outcome.finalSize,
         finalSL |-> outcome.finalSL,
         invalidationReason |-> outcome.invalidationReason]

\* getTradingDecision from data preparation to the end of the decision logic:
\* the values of its local variables before the first await
ComputeLocals(md, ad) ==
    LET currentPrice == IF Len(md.ticker) = 0 THEN 0 ELSE md.ticker[1].last
        totalEquity  == ad.balance.totalEq
        trend1H      == analyze1HTrend(md.candles1H)
        entry3m      == analyze3mEntry(md.candles3m, trend1H.direction)
        primaryPosition == FindPrimary(ad.positions, 1)
        hasPosition  == HasPosition(primaryPosition)
        outcome      == IF hasPosition
                        THEN EvaluateRisk(primaryPosition[1], trend1H.direction,
                                          totalEquity, currentPrice, md.candles3m)
                        ELSE EvaluateEntry(entry3m)
    IN  [currentPrice |-> currentPrice, totalEquity |-> totalEquity,
         trend1H |-> trend1H, entry3m |-> entry3m,
         primaryPosition |-> primaryPosition, hasPosition |-> hasPosition,
         finalAction |-> outcome.finalAction, finalSize |-> outcome.finalSize,
         finalSL |-> outcome.finalSL,
         invalidationReason |-> outcome.invalidationReason]

\* ------------------------------------------------------------------------
\* Decision composer: the Decision record, the annotator's text, the size
\* ------------------------------------------------------------------------

\* A number printed by toFixed(2), in hundredths
Num(v) == [k |-> "num", v |-> v]

\* what toFixed(2) prints for Infinity
Infinite == [k |-> "Infinity", v |-> 0]

\* what toFixed(2) prints for NaN
NotANumber == [k |-> "NaN", v |-> 0]

\* tEntry: structure, then "entry met" or the detector's reason
EntryText(entry3m) ==
    <<entry3m.structure, IF entry3m.signal THEN "entry met" ELSE entry3m.reason>>

\* The Decision literal of the try block, for a value of the leverage
DecisionWith(L, leverage) ==
    [stage_analysis      |-> <<"EMA trend tracking">>,
     market_assessment   |-> <<"1H trend", L.trend1H.description, "3m entry">>
                                \o EntryText(L.entry3m),
     hot_events_overview |-> <<"analysing hot events">>,
     eth_analysis        |-> <<"EMA15/60 state", L.trend1H.description>>,
     trading_decision    |->
        [action |-> L.finalAction, confidence |-> "100%",
         position_size |-> L.finalSize, leverage |-> leverage,
         profit_target |-> "", stop_loss |-> L.finalSL,
         invalidation_condition |-> <<"Trend Reversal">>],
     reasoning |-> <<"strict EMA15/60 logic", L.trend1H.description>>
                      \o EntryText(L.entry3m),
     action    |-> L.finalAction,
     size      |-> Num(0),
     leverage  |-> leverage]

\* DefaultDecision reporting the leverage of the held position
DefaultDecisionOwnLeverage(L) ==
    DecisionWith(L, IF L.hasPosition THEN L.primaryPosition[1].leverage
                    ELSE DEFAULT_LEVERAGE)

\* The Decision built from the computed values before the annotator's text is
\* read.  Narrative fields are sequences of strings.
DefaultDecision(L) == DecisionWith(L, DEFAULT_LEVERAGE)

\* The Decision returned by the catch block of getTradingDecision
ErrorDecision(message) ==
    [stage_analysis      |-> <<"strategy execution error">>,
     market_assessment   |-> <<"cannot assess">>,
     hot_events_overview |-> <<"data fetch failed">>,
     eth_analysis        |-> <<"N/A">>,
     trading_decision    |->
        [action |-> "hold", confidence |-> "0%", position_size |-> "0",
         leverage |-> 0, profit_target |-> "", stop_loss |-> <<>>,
         invalidation_condition |-> <<>>],
     reasoning |-> <<"system error", message>>,
     action    |-> "HOLD",
     size      |-> Num(0),
     leverage  |-> 0]

\* The JSON objects the annotator may send.  A narrative key that is absent
\* or empty (both falsy) is ""; trading_decision is a sequence of zero or one
\* object.
AiFull ==
    [stage_analysis |-> "ai stage", market_assessment |-> "ai market",
     hot_events_overview |-> "ai events", eth_analysis |-> "ai eth",
     reasoning |-> "ai reasoning",
     trading_decision |-> <<[action |-> "buy", position_size |-> "100%",
                             leverage |-> 100, stop_loss |-> <<1>>,
                             invalidation_condition |-> "ai invalidation"]>>,
     action |-> "BUY", size |-> Num(99900), leverage |-> 100]

AiPartial ==
    [stage_analysis |-> "", market_assessment |-> "",
     hot_events_overview |-> "ai events", eth_analysis |-> "",
     reasoning |-> "ai reasoning",
     trading_decision |-> <<>>,
     action |-> "", size |-> Num(0), leverage |-> 0]

AiContrary ==
    [stage_analysis |-> "", market_assessment |-> "",
     hot_events_overview |-> "", eth_analysis |-> "",
     reasoning |-> "",
     trading_decision |-> <<[action |-> "close", position_size |-> "0",
                             leverage |-> 1, stop_loss |-> <<>>,
                             invalidation_condition |-> ""]>>,
     action |-> "CLOSE", size |-> Num(0), leverage |-> 1]

\* What `text` (json.choices[0].message.content) may be: missing (undefined
\* or null), a string that is not JSON, or JSON text, bare or inside a
\* ```json fence, whose value is null or an object
NoObject == [stage_analysis |-> "", market_assessment |-> "",
             hot_events_overview |-> "", eth_analysis |-> "", reasoning |-> "",
             trading_decision |-> <<>>, action |-> "", size |-> Num(0),
             leverage |-> 0]

Contents ==
    {[t |-> "missing", fenced |-> FALSE, j |-> "none", o |-> NoObject],
     [t |-> "text",    fenced |-> FALSE, j |-> "none", o |-> NoObject],
     [t |-> "json",    fenced |-> FALSE, j |-> "null", o |-> NoObject],
     [t |-> "json",    fenced |-> TRUE,  j |-> "object", o |-> AiFull],
     [t |-> "json",    fenced |-> FALSE, j |-> "object", o |-> AiPartial],
     [t |-> "json",    fenced |-> FALSE, j |-> "object", o |-> AiContrary]}

NoContent == [t |-> "none", fenced |-> FALSE, j |-> "none", o |-> NoObject]

\* text.replace(/```json/g, '').replace(/```/g, '').trim() then JSON.parse:
\* the parsed value, or a throw (text is no string, or no JSON)
ParseText(content) ==
    IF content.t = "json" THEN [threw |-> FALSE, j |-> content.j, o |-> content.o]
    ELSE [threw |-> TRUE, j |-> "none", o |-> NoObject]

\* if (aiJson.f) decision.f = aiJson.f
Take(ai, default) == IF ai # "" THEN <<ai>> ELSE default

\* The six assignments that copy the annotator's narrative onto the decision
MapNarrative(decision, aiJson) ==
    [decision EXCEPT
        !.stage_analysis      = Take(aiJson.stage_analysis, @),
        !.market_assessment   = Take(aiJson.market_assessment, @),
        !.hot_events_overview = Take(aiJson.hot_events_overview, @),
        !.eth_analysis        = Take(aiJson.eth_analysis, @),
        !.reasoning           = Take(aiJson.reasoning, @),
        !.trading_decision.invalidation_condition =
            IF Len(aiJson.trading_decision) = 1
            THEN Take(aiJson.trading_decision[1].invalidation_condition, @)
            ELSE @]

\* ApplyAnnotation without its try/catch: a throw while reading the text
\* reaches the outer catch block
ApplyAnnotationUncaught(decision, content) ==
    LET parsed == ParseText(content)
    IN  IF parsed.threw \/ parsed.j # "object" THEN ErrorDecision("parse failed")
        ELSE MapNarrative(decision, parsed.o)

\* ApplyAnnotation that also takes the annotator's action and stop price
ApplyAnnotationTrusting(decision, content) ==
    LET parsed == ParseText(content)
        aiJson == parsed.o
    IN  IF parsed.threw \/ parsed.j # "object" THEN decision
        ELSE IF Len(aiJson.trading_decision) = 1
        THEN [MapNarrative(decision, aiJson) EXCEPT
                !.action = aiJson.action,
                !.trading_decision.action = aiJson.trading_decision[1].action,
                !.trading_decision.stop_loss = aiJson.trading_decision[1].stop_loss]
        ELSE MapNarrative(decision, aiJson)

\* The inner try block: map the annotator's narrative fields onto the
\* decision; a throw (no text, no JSON, property access on null) is caught
\* and leaves the decision as it was
ApplyAnnotation(decision, content) ==
    LET parsed == ParseText(content)
    IN  IF parsed.threw \/ parsed.j # "object" THEN decision
        ELSE MapNarrative(decision, parsed.o)

\* ContractSize without Math.max(contracts, 0.01)
ContractSizeNoFloor(totalEquity, currentPrice) ==
    LET num == totalEquity * 5 * DEFAULT_LEVERAGE * 10
        den == CONTRACT_VAL_ETH * currentPrice
    IN  IF den = 0 THEN (IF num = 0 THEN NotANumber ELSE Infinite)
        ELSE Num((2 * num + den) \div (2 * den))

\* Math.max(contracts, 0.01).toFixed(2) with contracts =
\* (totalEquity * 0.05 * leverage) / (CONTRACT_VAL_ETH * currentPrice)
ContractSize(totalEquity, currentPrice) ==
    LET num == totalEquity * 5 * DEFAULT_LEVERAGE * 10
        den == CONTRACT_VAL_ETH * currentPrice
    IN  IF den = 0 THEN (IF num = 0 THEN NotANumber ELSE Infinite)
        ELSE Num(Max((2 * num + den) \div (2 * den), 1))

\* WithSize without the test of the action
WithSizeAlways(decision, L) ==
    [decision EXCEPT !.size = ContractSize(L.totalEquity, L.currentPrice)]

\* if (finalAction === 'BUY' || finalAction === 'SELL') decision.size = ...
WithSize(decision, L) ==
    IF L.finalAction \in {"BUY", "SELL"}
    THEN [decision EXCEPT !.size = ContractSize(L.totalEquity, L.currentPrice)]
    ELSE decision

\* The body of the outer try block after callDeepSeek returned `content`
ComposeDecision(L, content) ==
    WithSize(ApplyAnnotation(DefaultDecision(L), content), L)

\* ------------------------------------------------------------------------
\* Inputs of a cycle: the market and account snapshots the caller passes in
\* ------------------------------------------------------------------------

\* marketData.ticker: null, or a ticker with its last price in cents
Tickers == {<<>>, <<[last |-> 148]>>, <<[last |-> 250]>>}

NoMarket == [ticker |-> <<>>, candles1H |-> <<>>, candles3m |-> <<>>]

\* a position in another instrument
OtherPosition ==
    [instId |-> "BTC-USDT-SWAP", posSide |-> "short", pos |-> 100, avgPx |-> 100,
     upl |-> 90000, slTriggerPx |-> <<>>, leverage |-> 20]

\* an entry of the instrument that holds no contracts
ZeroPosition ==
    [instId |-> INSTRUMENT_ID, posSide |-> "long", pos |-> 0, avgPx |-> 0,
     upl |-> 0, slTriggerPx |-> <<>>, leverage |-> 50]

\* an open position of one contract entered at 2.20 with 50.00 unrealized
\* PnL, held at 50x
OpenPosition(side, sl) ==
    [instId |-> INSTRUMENT_ID, posSide |-> side, pos |-> 100, avgPx |-> 220,
     upl |-> 5000, slTriggerPx |-> sl, leverage |-> 50]

\* The account snapshots that may follow the snapshot ad.  A position that
\* stays open on the same side keeps its stop; a newly opened one has none.
\* The account is either one of 1000.00 total equity holding nothing else, or
\* one of 2000.00 that also holds a position in another instrument.
AccountSet(ad) ==
    LET cur == FindPrimary(ad.positions, 1)
        slOf(side) == IF HasPosition(cur) /\ cur[1].posSide = side
                      THEN cur[1].slTriggerPx ELSE <<>>
        eth == {<<>>, <<ZeroPosition>>}
               \cup {<<OpenPosition(side, slOf(side))>> : side \in {"long", "short"}}
    IN  {[balance |-> [totalEq |-> 100000], positions |-> ps] : ps \in eth}
        \cup {[balance |-> [totalEq |-> 200000], positions |-> <<OtherPosition>> \o ps] :
                 ps \in eth}

\* apiKey: empty, blank (only white space), holding a non-ASCII character,
\* or well-formed
ApiKeys == {"", " ", "sk-non-ascii", "sk-key"}

\* apiKey.trim()
Trim(key) == IF key = " " THEN "" ELSE key

\* /[^\x00-\x7F]/.test(cleanKey)
HasNonAscii(key) == key = "sk-non-ascii"

\* how the news request may settle, and the newsContext that results
NewsOutcomes == {"network error", "not ok", "data", "no data"}

\* how the annotator request may settle
AnnotatorFailures == {"network error", "not ok", "body not json", "no choices"}

AnnotatorResponses ==
    {[kind |-> f, content |-> NoContent] : f \in AnnotatorFailures}
    \cup {[kind |-> "content", content |-> c] : c \in Contents}

NoResponse == [kind |-> "none", content |-> NoContent]

\* ------------------------------------------------------------------------
\* State
\* ------------------------------------------------------------------------

VARIABLES
    marketData,     \* the caller's latest MarketDataCollection
    accountData,    \* the caller's latest AccountContext
    pc,             \* where the running getTradingDecision call stands
    apiKey,         \* the apiKey argument of the running call
    locals,         \* the call's local variables after the decision logic
    newsFetch,      \* the fetch of fetchRealTimeNews: none, pending, settled
    aiFetch,        \* the fetch of callDeepSeek: none, pending, settled
    aiResponse,     \* what the annotator request settled with
    result,         \* how the call's promise settled
    unit,           \* a function of the service applied on its own: its
                    \* name, its arguments and what it returned
    adds            \* history: how many calls in a row returned an add
                    \* (counted up to MaxAdds)

vars == <<marketData, accountData, pc, apiKey, locals, newsFetch, aiFetch,
          aiResponse, result, unit, adds>>

\* apiKey outside a call
NoKey == "(no call)"

NoLocals == [finalAction |-> "none"]

NoResult == [status |-> "none"]

NoUnit == [fn |-> "none"]

Resolved(decision) == [status |-> "resolved", decision |-> decision]

Rejected(message) == [status |-> "rejected", message |-> message]

Init ==
    /\ marketData = NoMarket
    /\ accountData = [balance |-> [totalEq |-> 100000], positions |-> <<>>]
    /\ pc = "idle"
    /\ apiKey = NoKey
    /\ locals = NoLocals
    /\ newsFetch = "none"
    /\ aiFetch = "none"
    /\ aiResponse = NoResponse
    /\ result = NoResult
    /\ unit = NoUnit
    /\ adds = 0

\* ------------------------------------------------------------------------
\* The caller before a cycle
\* ------------------------------------------------------------------------

\* the caller fetches a fresh market snapshot
PollMarket ==
    /\ pc = "idle"
    /\ pc' = "market"
    /\ \E t \in Tickers, c1 \in Candles1HSet, c3 \in Candles3mSet :
          marketData' = [ticker |-> t, candles1H |-> c1, candles3m |-> c3]
    /\ UNCHANGED <<unit, adds, accountData, apiKey, locals, newsFetch, aiFetch,
                   aiResponse, result>>

\* the caller fetches a fresh account snapshot
PollAccount ==
    /\ pc = "market"
    /\ pc' = "ready"
    /\ accountData' \in AccountSet(accountData)
    /\ UNCHANGED <<unit, adds, marketData, apiKey, locals, newsFetch, aiFetch,
                   aiResponse, result>>

\* ------------------------------------------------------------------------
\* One call of getTradingDecision, a step per stretch between two awaits
\* ------------------------------------------------------------------------

\* Invoke of an engine that remembers the adds it returned and adds once
\* only: after an add it holds, or only moves the stop
InvokeAddingOnce ==
    /\ pc = "ready"
    /\ \E key \in ApiKeys :
          /\ apiKey' = key
          /\ IF key = ""
             THEN /\ pc' = "rejected"
                  /\ result' = Rejected("please enter the DeepSeek API Key")
                  /\ UNCHANGED <<locals, newsFetch>>
             ELSE /\ pc' = "news"
                  /\ locals' =
                        LET L == ComputeLocals(marketData, accountData)
                        IN  IF adds > 0 /\ L.hasPosition
                                        /\ L.finalAction \in {"BUY", "SELL"}
                            THEN [L EXCEPT !.finalAction = IF L.finalSL = <<>>
                                                           THEN "HOLD"
                                                           ELSE "UPDATE_TPSL",
                                           !.finalSize = "0"]
                            ELSE L
                  /\ newsFetch' = "pending"
                  /\ UNCHANGED result
    /\ UNCHANGED <<unit, adds, marketData, accountData, aiFetch, aiResponse>>

\* The call up to `await fetchRealTimeNews()`: the apiKey check, data
\* preparation, trend and entry analysis and the decision logic
Invoke ==
    /\ pc = "ready"
    /\ \E key \in ApiKeys :
          /\ apiKey' = key
          /\ IF key = ""
             THEN /\ pc' = "rejected"
                  /\ result' = Rejected("please enter the DeepSeek API Key")
                  /\ UNCHANGED <<locals, newsFetch>>
             ELSE /\ pc' = "news"
                  /\ locals' = ComputeLocals(marketData, accountData)
                  /\ newsFetch' = "pending"
                  /\ UNCHANGED result
    /\ UNCHANGED <<unit, adds, marketData, accountData, aiFetch, aiResponse>>

\* the news request settles (a response or a network error)
NewsSettles ==
    /\ newsFetch = "pending"
    /\ newsFetch' = "settled"
    /\ UNCHANGED <<unit, adds, marketData, accountData, pc, apiKey, locals, aiFetch,
                   aiResponse, result>>

\* The call from the settled news request to the fetch of callDeepSeek.
\* fetchRealTimeNews turns every outcome into a newsContext string, which
\* goes into the request and nowhere else.  callDeepSeek throws before the
\* fetch when the trimmed key is empty or not ASCII; the catch block of
\* getTradingDecision turns the throw into the error decision.
AfterNews ==
    /\ pc = "news"
    /\ newsFetch = "settled"
    /\ \E outcome \in NewsOutcomes :
          /\ newsFetch' = "none"
          /\ IF Trim(apiKey) = ""
             THEN /\ pc' = "returned"
                  /\ result' = Resolved(ErrorDecision("API Key is empty"))
                  /\ UNCHANGED aiFetch
             ELSE IF HasNonAscii(Trim(apiKey))
             THEN /\ pc' = "returned"
                  /\ result' = Resolved(ErrorDecision("API Key has illegal characters"))
                  /\ UNCHANGED aiFetch
             ELSE /\ pc' = "annotator"
                  /\ aiFetch' = "pending"
                  /\ UNCHANGED result
    /\ UNCHANGED <<unit, adds, marketData, accountData, apiKey, locals, aiResponse>>

\* the annotator request settles (a response or a network error)
AnnotatorSettles ==
    /\ aiFetch = "pending"
    /\ aiFetch' = "settled"
    /\ UNCHANGED <<unit, adds, marketData, accountData, pc, apiKey, locals, newsFetch,
                   aiResponse, result>>

\* The call from the settled annotator request to its return.  Every failure
\* inside callDeepSeek is rethrown and lands in the catch block of
\* getTradingDecision; returned content goes through the inner try block and
\* the size computation.
AfterAnnotator ==
    /\ pc = "annotator"
    /\ aiFetch = "settled"
    /\ \E r \in AnnotatorResponses :
          /\ aiResponse' = r
          /\ result' = IF r.kind = "content"
                        THEN Resolved(ComposeDecision(locals, r.content))
                        ELSE Resolved(ErrorDecision(r.kind))
    /\ pc' = "returned"
    /\ aiFetch' = "none"
    /\ UNCHANGED <<unit, adds, marketData, accountData, apiKey, locals, newsFetch>>

\* ------------------------------------------------------------------------
\* The caller after a cycle
\* ------------------------------------------------------------------------

EndCall ==
    /\ pc' = "idle"
    /\ apiKey' = NoKey
    /\ locals' = NoLocals
    /\ aiResponse' = NoResponse
    /\ result' = NoResult
    /\ marketData' = NoMarket
    /\ UNCHANGED <<unit, newsFetch, aiFetch>>

\* the caller takes the outcome and leaves the account as it is
Finish ==
    /\ pc \in {"returned", "rejected"}
    /\ EndCall
    /\ UNCHANGED <<accountData, adds>>

\* the caller commits the stop price of the returned decision as the stop of
\* the open position
CommitStop ==
    /\ pc = "returned"
    /\ HasPosition(FindPrimary(accountData.positions, 1))
    /\ Len(result.decision.trading_decision.stop_loss) = 1
    /\ accountData' =
          [accountData EXCEPT !.positions =
              [x \in DOMAIN @ |->
                  IF @[x].instId = INSTRUMENT_ID
                  THEN [@[x] EXCEPT !.slTriggerPx =
                            result.decision.trading_decision.stop_loss]
                  ELSE @[x]]]
    /\ EndCall
    /\ UNCHANGED adds

Next ==
    \/ PollMarket
    \/ PollAccount
    \/ Invoke
    \/ NewsSettles
    \/ AfterNews
    \/ AnnotatorSettles
    \/ AfterAnnotator
    \/ Finish
    \/ CommitStop

Spec == Init /\ [][Next]_vars

\* The event loop resumes the call once the promise it awaits has settled;
\* nothing makes a pending request settle.
FairSpec == Spec /\ WF_vars(AfterNews) /\ WF_vars(AfterAnnotator)

\* ------------------------------------------------------------------------
\* The functions of the service applied on their own, to arguments that a
\* whole cycle does not reach
\* ------------------------------------------------------------------------

\* the variables of the evaluation cycle
cycleVars == <<marketData, accountData, pc, apiKey, locals, newsFetch,
               aiFetch, aiResponse, result>>

\* total equity, in cents: an empty account, one cent, and the two accounts
\* of the cycle
Equities == {0, 1, 100000, 200000}

\* current price, in cents: absent (0), the two prices of the cycle, and
\* 1000.00
SizePrices == {0, 148, 250, 100000}

Actions == {"HOLD", "BUY", "SELL", "CLOSE", "UPDATE_TPSL"}

\* The size block of getTradingDecision applied to a decision whose size is
\* still "0"
ApplySize ==
    /\ unit = NoUnit
    /\ \E a \in Actions, e \in Equities, cp \in SizePrices :
          unit' = [fn |-> "size", finalAction |-> a, totalEquity |-> e,
                   currentPrice |-> cp,
                   out |-> WithSize([size |-> Num(0)],
                                    [finalAction |-> a, totalEquity |-> e,
                                     currentPrice |-> cp]).size]
    /\ UNCHANGED <<cycleVars, adds>>

\* price levels of a series handed to calcEMAArray, in cents
PriceLevels == {150, 200, 250}

\* the price series of at most n prices
PriceSeries(n) == UNION {[1..m -> PriceLevels] : m \in 0..n}

\* the periods: 1 (k = 1), 2, and the two periods of the strategy
Periods == {1, 2, FastPeriod, SlowPeriod}

\* calcEMAArray applied to a short series
ApplyEma ==
    /\ unit = NoUnit
    /\ \E prices \in PriceSeries(MaxPrices), period \in Periods :
          unit' = [fn |-> "calcEMAArray", prices |-> prices, period |-> period,
                   out |-> calcEMAArray(prices, period)]
    /\ UNCHANGED <<cycleVars, adds>>

\* the trend handed to analyze3mEntry
Directions == {"UP", "DOWN", "NEUTRAL"}

\* the tails of one to n candles
TailsUpTo(n) == UNION {Tails(CandleShapes, m) : m \in 1..n}

\* number of flat candles after which both EMAs of SpikeHistory are back at
\* the flat price, to the last digit
RecoveryCandles == 2 * MinCandles + 6

\* three flat candles, one rising candle, and flat candles until both EMAs
\* have returned to the flat price
SpikeHistory ==
    [x \in 1..(4 + RecoveryCandles) |-> IF x = 4 THEN UpCandle ELSE FlatCandle]

\* the candles of a sequence of shapes; ts is the candle's index
WithTs(shapes) ==
    [x \in 1..Len(shapes) |->
        [ts |-> x, o |-> shapes[x].o, h |-> shapes[x].h, l |-> shapes[x].l,
         c |-> shapes[x].c]]

\* series handed to analyze3mEntry: a flat history of MinCandles candles, or
\* SpikeHistory, each followed by a free tail
EntrySeries ==
    {MkCandles(MinCandles, t) : t \in TailsUpTo(MaxEntryTail)}
    \cup {WithTs(SpikeHistory \o t) : t \in TailsUpTo(MaxEntryTail)}

\* analyze3mEntry applied to a series and a trend
ApplyEntry ==
    /\ unit = NoUnit
    /\ \E candles \in EntrySeries, trendDirection \in Directions :
          unit' = [fn |-> "analyze3mEntry", candles |-> candles,
                   trendDirection |-> trendDirection,
                   out |-> analyze3mEntry(candles, trendDirection)]
    /\ UNCHANGED <<cycleVars, adds>>

\* candles with the open of the last candle replaced
WithLastOpen(candles, open) ==
    [candles EXCEPT ![Len(candles)].o = open]

\* opens that make the last candle rise, fall, or neither
LastOpens(candles) ==
    LET close == candles[Len(candles)].c
    IN  {close - 10, close, close + 10}

\* series handed to analyze1HTrend: those of EntrySeries and those of exactly
\* MinCandles candles, the last candle in each colour
TrendSeries ==
    LET base == EntrySeries
                  \cup {MkCandles(MinCandles - 1, t) : t \in Tails(CandleShapes, 1)}
    IN  UNION {{WithLastOpen(candles, open) : open \in LastOpens(candles)} :
                  candles \in base}

\* analyze1HTrend applied to a series
ApplyTrend ==
    /\ unit = NoUnit
    /\ \E candles \in TrendSeries :
          unit' = [fn |-> "analyze1HTrend", candles |-> candles,
                   out |-> analyze1HTrend(candles)]
    /\ UNCHANGED <<cycleVars, adds>>

\* the result is dropped before the next application
Discard ==
    /\ unit # NoUnit
    /\ unit' = NoUnit
    /\ UNCHANGED <<cycleVars, adds>>

UnitNext ==
    \/ ApplySize
    \/ ApplyEma
    \/ ApplyEntry
    \/ ApplyTrend
    \/ Discard

UnitSpec == Init /\ [][UnitNext]_vars

\* ------------------------------------------------------------------------
\* Cycle after cycle on a quiet lower timeframe, with the adds counted
\* ------------------------------------------------------------------------

\* lower-timeframe inputs without a free tail: none, or the flat history
QuietCandles3m == {<<>>, MkCandles(MinCandles, <<>>)}

\* the caller fetches a market snapshot whose lower timeframe is quiet
PollQuietMarket ==
    /\ pc = "idle"
    /\ pc' = "market"
    /\ \E t \in Tickers, c1 \in Candles1HSet, c3 \in QuietCandles3m :
          marketData' = [ticker |-> t, candles1H |-> c1, candles3m |-> c3]
    /\ UNCHANGED <<unit, adds, accountData, apiKey, locals, newsFetch, aiFetch,
                   aiResponse, result>>

\* the call returned an add to an open position
ReturnedAdd ==
    /\ pc = "returned"
    /\ result.status = "resolved"
    /\ result.decision.action \in {"BUY", "SELL"}
    /\ HasPosition(FindPrimary(accountData.positions, 1))

\* the caller takes the outcome; the count of adds in a row goes up after an
\* add and back to zero after anything else
RecordOutcome ==
    /\ pc \in {"returned", "rejected"}
    /\ adds' = IF ReturnedAdd THEN Min(adds + 1, MaxAdds) ELSE 0
    /\ EndCall
    /\ UNCHANGED accountData

RollNext ==
    \/ PollQuietMarket
    \/ PollAccount
    \/ Invoke
    \/ NewsSettles
    \/ AfterNews
    \/ AnnotatorSettles
    \/ AfterAnnotator
    \/ RecordOutcome

RollSpec == Init /\ [][RollNext]_vars

\* ------------------------------------------------------------------------
\* Properties
\* ------------------------------------------------------------------------

\* the running call has passed its decision logic: locals holds its values
Computed == pc \in {"news", "annotator", "returned"}

\* the side of the position the running call looks at
HeldSide == locals.primaryPosition[1].posSide

\* C1: reversal exit always wins.  Whenever the call holds a position and the
\* trend verdict is UP against a short position or DOWN against a long one,
\* the computed action is CLOSE and no stop price is proposed, whatever the
\* PnL, the existing stop, the candles and the price.
C1_ReversalExitWins ==
    (/\ Computed
     /\ locals.hasPosition
     /\ \/ locals.trend1H.direction = "UP" /\ HeldSide = "short"
        \/ locals.trend1H.direction = "DOWN" /\ HeldSide = "long")
    => (locals.finalAction = "CLOSE" /\ locals.finalSL = <<>>)

\* C1 witness: a long position under a DOWN verdict whose PnL meets the
\* pyramiding threshold and whose trailing-stop candidate would be accepted,
\* and the computed action is CLOSE.
C1_Witness ==
    /\ Computed
    /\ locals.hasPosition
    /\ locals.trend1H.direction = "DOWN"
    /\ HeldSide = "long"
    /\ locals.primaryPosition[1].upl * 20 >= locals.totalEquity
    /\ TrailingStop(locals.primaryPosition[1], locals.currentPrice,
                    marketData.candles3m).shouldUpdate
    /\ locals.finalAction = "CLOSE"

\* the position of the instrument in an account snapshot, if it is open
Primary(ad) == FindPrimary(ad.positions, 1)

HeldOn(ad, side) == HasPosition(Primary(ad)) /\ Primary(ad)[1].posSide = side

\* the committed stop of the open position, 0 when none is set
StopOf(ad) == ParseOrZero(Primary(ad)[1].slTriggerPx)

\* C2: stop ratchet monotonicity.  With every proposed stop committed as the
\* position's stop before the next cycle, no step lowers the stop of a
\* position that stays long, and no step raises a non-zero stop of a position
\* that stays short.
C2_StopRatchetMonotone ==
    [][/\ (HeldOn(accountData, "long") /\ HeldOn(accountData', "long"))
            => StopOf(accountData') >= StopOf(accountData)
       /\ (HeldOn(accountData, "short") /\ HeldOn(accountData', "short")
             /\ StopOf(accountData) # 0)
            => StopOf(accountData') <= StopOf(accountData)]_vars

\* C2 witness: a long position whose stop was committed in an earlier cycle,
\* and a returned decision that proposes a higher stop for it.
C2_Witness ==
    /\ pc = "returned"
    /\ HeldOn(accountData, "long")
    /\ StopOf(accountData) > 0
    /\ result.status = "resolved"
    /\ Len(result.decision.trading_decision.stop_loss) = 1
    /\ result.decision.trading_decision.stop_loss[1] > StopOf(accountData)

\* the returned decision, when the call's promise resolved
Returned == pc = "returned" /\ result.status = "resolved"

\* decision.size as the size computation leaves it for the computed action
ComputedSize ==
    IF locals.finalAction \in {"BUY", "SELL"}
    THEN ContractSize(locals.totalEquity, locals.currentPrice)
    ELSE Num(0)

\* the returned decision carries the action, size, leverage and stop that the
\* decision logic computed
CarriesComputed ==
    /\ result.status = "resolved"
    /\ result.decision.action = locals.finalAction
    /\ result.decision.size = ComputedSize
    /\ result.decision.leverage = DEFAULT_LEVERAGE
    /\ result.decision.trading_decision.action = locals.finalAction
    /\ result.decision.trading_decision.position_size = locals.finalSize
    /\ result.decision.trading_decision.leverage = DEFAULT_LEVERAGE
    /\ result.decision.trading_decision.stop_loss = locals.finalSL

\* the narrative fields are the engine's defaults
DefaultNarrative ==
    LET d == DefaultDecision(locals)
    IN  /\ result.decision.stage_analysis = d.stage_analysis
        /\ result.decision.market_assessment = d.market_assessment
        /\ result.decision.hot_events_overview = d.hot_events_overview
        /\ result.decision.eth_analysis = d.eth_analysis
        /\ result.decision.reasoning = d.reasoning
        /\ result.decision.trading_decision.invalidation_condition =
              d.trading_decision.invalidation_condition

\* C3: annotator failure isolation.  When the annotator request ends in a
\* network error or a non-2xx status, the returned decision has the action,
\* size and stop price that the engine computed.
C3_AnnotatorFailureKeepsComputed ==
    (pc = "returned" /\ aiResponse.kind \in {"network error", "not ok"})
        => CarriesComputed

\* C4: malformed-annotation isolation.  When the annotator's reply has no
\* content or content that is no JSON, the call resolves with the computed
\* action, size and stop price and with the default narrative.
C4_MalformedKeepsComputed ==
    (/\ pc = "returned"
     /\ aiResponse.kind = "content"
     /\ aiResponse.content.t \in {"missing", "text"})
        => (CarriesComputed /\ DefaultNarrative)

\* C4 witness: a reply whose content is no JSON, returned for a computed
\* entry with a size and a stop price.
C4_Witness ==
    /\ pc = "returned"
    /\ aiResponse.kind = "content"
    /\ aiResponse.content.t = "text"
    /\ locals.finalAction \in {"BUY", "SELL"}
    /\ locals.finalSL # <<>>
    /\ result.decision.action = locals.finalAction
    /\ result.decision.size # Num(0)

\* C5: non-interference of the annotator.  For every reply whose content is
\* well-formed JSON, the returned action, size, leverage and stop price are
\* the values fixed by the market data and the account alone, whatever the
\* reply says.
C5_AnnotatorNonInterference ==
    (/\ pc = "returned"
     /\ aiResponse.kind = "content"
     /\ aiResponse.content.t = "json")
        => CarriesComputed

\* C5 witness: a reply that names its own action, size, leverage and stop is
\* taken for its narrative, while the engine computed an exit.
C5_Witness ==
    /\ pc = "returned"
    /\ aiResponse.kind = "content"
    /\ aiResponse.content.o = AiFull
    /\ locals.finalAction = "CLOSE"
    /\ result.decision.reasoning = <<"ai reasoning">>
    /\ result.decision.action = "CLOSE"

\* C6: annotation is optional.  A call with an empty API key still comes back
\* with the decision computed from the market data and the account.
C6_EmptyKeyStillDecides ==
    (pc \in {"returned", "rejected"} /\ apiKey = "")
        => /\ result.status = "resolved"
           /\ result.decision.action =
                 ComputeLocals(marketData, accountData).finalAction
           /\ result.decision.trading_decision.stop_loss =
                 ComputeLocals(marketData, accountData).finalSL

\* a failure inside the call: a key callDeepSeek cannot use, or an annotator
\* request that fails
FailureOccurred ==
    \/ apiKey # NoKey /\ (Trim(apiKey) = "" \/ HasNonAscii(Trim(apiKey)))
    \/ aiResponse.kind \in AnnotatorFailures

\* C7: failure safety.  The call never ends in an exception: every failure
\* inside it ends in a returned decision with action HOLD, size 0 and
\* leverage 0.
C7_FailureYieldsHold ==
    /\ pc # "rejected"
    /\ (pc = "returned" /\ FailureOccurred)
          => /\ result.status = "resolved"
             /\ result.decision.action = "HOLD"
             /\ result.decision.size = Num(0)
             /\ result.decision.leverage = 0

\* C8: bounded wait.  Every call that waits for the news or the annotator
\* request eventually returns a decision.
C8_CallEventuallyReturns ==
    (pc \in {"news", "annotator"}) ~> (pc = "returned")

\* C9: the two modes are exclusive.  Without a position the action comes from
\* the entry signal alone (HOLD, or the signal's BUY/SELL with the signal's
\* stop); with a position it comes from risk evaluation alone: an add needs
\* the pyramiding threshold and follows the held side, and the stop is the
\* trailing stop's or none, so an entry signal by itself neither opens nor
\* adds.
C9_ModesExclusive ==
    Computed =>
      IF locals.hasPosition
      THEN LET p == locals.primaryPosition[1]
               trail == TrailingStop(p, locals.currentPrice, marketData.candles3m)
           IN  /\ locals.finalAction \in {"BUY", "SELL"}
                     => /\ PyramidDue(p.upl, locals.totalEquity)
                        /\ locals.finalAction = "BUY" <=> p.posSide = "long"
               /\ locals.finalSL \in {<<>>, <<toFixed2(trail.newSL)>>}
               /\ locals.finalSL # <<>> => trail.shouldUpdate
      ELSE /\ locals.finalAction \in {"HOLD", "BUY", "SELL"}
           /\ locals.finalAction # "HOLD" <=> locals.entry3m.signal
           /\ locals.entry3m.signal
                 => /\ locals.finalAction = locals.entry3m.action
                    /\ locals.finalSL = <<toFixed2(locals.entry3m.sl * PxScale)>>
           /\ ~locals.entry3m.signal => locals.finalSL = <<>>

\* C9 witness: a position is held, the entry detector fires, the pyramiding
\* threshold is not met, and the action is no order.
C9_Witness ==
    /\ Computed
    /\ locals.hasPosition
    /\ locals.entry3m.signal
    /\ ~PyramidDue(locals.primaryPosition[1].upl, locals.totalEquity)
    /\ locals.finalAction \notin {"BUY", "SELL"}

\* C10: insufficient data is safe.  With fewer than MinCandles 1H candles the
\* trend is NEUTRAL; with fewer than MinCandles 3m candles the entry detector
\* reports no signal, for insufficient data.
C10_InsufficientDataSafe ==
    Computed =>
      /\ Len(marketData.candles1H) < MinCandles
            => locals.trend1H.direction = "NEUTRAL"
      /\ Len(marketData.candles3m) < MinCandles
            => /\ ~locals.entry3m.signal
               /\ locals.entry3m.reason = "insufficient data"
               /\ locals.entry3m.action = "HOLD"

\* C10 witness: one candle short of MinCandles on both timeframes, with
\* moving candles at the end of each series.
C10_Witness ==
    /\ Computed
    /\ Len(marketData.candles1H) = MinCandles - 1
    /\ Len(marketData.candles3m) = MinCandles - 1
    /\ marketData.candles1H[MinCandles - 1].c # marketData.candles1H[1].c
    /\ marketData.candles3m[MinCandles - 1].c # marketData.candles3m[1].c
    /\ locals.trend1H.direction = "NEUTRAL"
    /\ ~locals.entry3m.signal

\* C11: position sizing.  For an action of BUY or SELL the size is
\* 0.05 * totalEquity * leverage / (contractValue * currentPrice), rounded to
\* two decimals (half up) and never below 0.01; a price of 0 with equity
\* gives the quotient's Infinity.  The quotient, in hundredths of a contract,
\* is 250 * totalEquity / currentPrice with both in cents.
C11_SizeFormula ==
    (unit.fn = "size" /\ unit.finalAction \in {"BUY", "SELL"})
      => LET num == 250 * unit.totalEquity
             den == unit.currentPrice
             v   == unit.out.v
         IN  IF den > 0
             THEN /\ unit.out.k = "num"
                  /\ v >= 1
                  /\ IF 2 * num + den >= 2 * den
                     THEN 2 * v * den <= 2 * num + den /\ 2 * num + den < 2 * (v + 1) * den
                     ELSE v = 1
             ELSE num > 0 => unit.out = Infinite

\* C11 witness: a BUY whose quotient is below 0.005 contracts is sized 0.01.
C11_Witness ==
    /\ unit.fn = "size"
    /\ unit.finalAction = "BUY"
    /\ unit.currentPrice > 0
    /\ 500 * unit.totalEquity < unit.currentPrice
    /\ unit.out = Num(1)

\* C12: the leverage is a fixed constant.  Every decision composed from an
\* annotator reply reports DEFAULT_LEVERAGE, at the top level and in
\* trading_decision, and an order's size is the one computed with
\* DEFAULT_LEVERAGE, whatever the reply, the market data and the leverage of
\* the held position are.
C12_LeverageFixed ==
    (pc = "returned" /\ aiResponse.kind = "content")
      => /\ result.status = "resolved"
         /\ result.decision.leverage = DEFAULT_LEVERAGE
         /\ result.decision.trading_decision.leverage = DEFAULT_LEVERAGE
         /\ (result.decision.action \in {"BUY", "SELL"} /\ locals.currentPrice > 0)
               => LET num == 50 * DEFAULT_LEVERAGE * locals.totalEquity
                      den == locals.currentPrice
                      v   == result.decision.size.v
                  IN  2 * v * den <= 2 * num + den /\ 2 * num + den < 2 * (v + 1) * den

\* C12 witness: an add to a position held at another leverage, composed from
\* a reply that names a third leverage.
C12_Witness ==
    /\ pc = "returned"
    /\ aiResponse.kind = "content"
    /\ aiResponse.content.o.leverage = 100
    /\ locals.hasPosition
    /\ locals.primaryPosition[1].leverage = 50
    /\ locals.currentPrice > 0
    /\ result.decision.action = "BUY"
    /\ result.decision.leverage = DEFAULT_LEVERAGE

\* C13: the EMA recurrence.  The series has the length of the input, its
\* first element is the first price, and every later element is
\* prices[i] * k + output[i-1] * (1 - k) with k = 2 / (period + 1), held to
\* the resolution of the series (1/EmaScale cent, truncated); series shorter
\* than the period are no exception.
C13_EmaRecurrence ==
    unit.fn = "calcEMAArray"
      => /\ Len(unit.out) = Len(unit.prices)
         /\ Len(unit.prices) > 0 => unit.out[1] = unit.prices[1] * EmaScale
         /\ \A i \in 2..Len(unit.prices) :
               LET exact == 2 * unit.prices[i] * EmaScale
                              + (unit.period - 1) * unit.out[i - 1]
               IN  /\ (unit.period + 1) * unit.out[i] <= exact
                   /\ exact < (unit.period + 1) * (unit.out[i] + 1)

\* C13 witness: a series shorter than the period whose prices move, with an
\* EMA that lags behind the last price.
C13_Witness ==
    /\ unit.fn = "calcEMAArray"
    /\ Len(unit.prices) > 2
    /\ Len(unit.prices) < unit.period
    /\ unit.prices[Len(unit.prices)] > unit.prices[1]
    /\ unit.out[Len(unit.out)] > unit.prices[1] * EmaScale
    /\ unit.out[Len(unit.out)] < unit.prices[Len(unit.prices)] * EmaScale

\* the fields of the candles handed to the function applied on its own
UnitCloses == [x \in 1..Len(unit.candles) |-> unit.candles[x].c]

UnitLows == [x \in 1..Len(unit.candles) |-> unit.candles[x].l]

UnitHighs == [x \in 1..Len(unit.candles) |-> unit.candles[x].h]

\* a is under b at some index before i
HasZone(a, b, i) == \E e \in 1..(i - 1) : a[e] < b[e]

\* the last index before i where a is under b
ZoneEnd(a, b, i) ==
    CHOOSE e \in 1..(i - 1) :
        a[e] < b[e] /\ \A y \in (e + 1)..(i - 1) : ~(a[y] < b[y])

\* the first index of the run of indices, ending at e, where a is under b
ZoneBegin(a, b, e) ==
    CHOOSE z \in 1..e :
        /\ \A y \in z..e : a[y] < b[y]
        /\ z = 1 \/ ~(a[z - 1] < b[z - 1])

SetMin(S) == CHOOSE m \in S : \A y \in S : m <= y

SetMax(S) == CHOOSE m \in S : \A y \in S : m >= y

\* C14: the entry stop is the zone extreme.  A signal under trend UP is a BUY
\* whose stop is the lowest low over the nearest death zone before the last
\* candle and the last candle itself; a signal under trend DOWN is a SELL
\* whose stop is the highest high over the nearest gold zone and the last
\* candle.
C14_EntryStopIsZoneExtreme ==
    (unit.fn = "analyze3mEntry" /\ unit.out.signal)
      => LET e15 == calcEMAArray(UnitCloses, FastPeriod)
             e60 == calcEMAArray(UnitCloses, SlowPeriod)
             i   == Len(unit.candles)
         IN  \/ /\ unit.trendDirection = "UP"
                /\ unit.out.action = "BUY"
                /\ HasZone(e15, e60, i)
                /\ LET e == ZoneEnd(e15, e60, i)
                       z == ZoneBegin(e15, e60, e)
                   IN  unit.out.sl = SetMin({UnitLows[x] : x \in z..e} \cup {UnitLows[i]})
                /\ unit.out.sl <= UnitLows[i]
             \/ /\ unit.trendDirection = "DOWN"
                /\ unit.out.action = "SELL"
                /\ HasZone(e60, e15, i)
                /\ LET e == ZoneEnd(e60, e15, i)
                       z == ZoneBegin(e60, e15, e)
                   IN  unit.out.sl = SetMax({UnitHighs[x] : x \in z..e} \cup {UnitHighs[i]})
                /\ unit.out.sl >= UnitHighs[i]

\* C14 witness: a BUY after a death zone of two candles or more whose lowest
\* low lies under the low of the crossing candle.
C14_Witness ==
    /\ unit.fn = "analyze3mEntry"
    /\ unit.out.signal
    /\ unit.out.action = "BUY"
    /\ unit.out.sl < UnitLows[Len(unit.candles)]
    /\ LET e15 == calcEMAArray(UnitCloses, FastPeriod)
           e60 == calcEMAArray(UnitCloses, SlowPeriod)
           e   == ZoneEnd(e15, e60, Len(unit.candles))
       IN  ZoneBegin(e15, e60, e) < e

\* C15: the validating zone is contiguous and ends right before the cross.
\* On a signal under trend UP the candle before the last is in a death zone,
\* and the stop is the lowest low from the start of that run to the last
\* candle; symmetric with the gold zone and the highest high under DOWN.  The
\* scan reaches no older zone across candles whose EMAs are equal or on the
\* side of the new cross.
C15_ZoneContiguous ==
    (unit.fn = "analyze3mEntry" /\ unit.out.signal)
      => LET e15 == calcEMAArray(UnitCloses, FastPeriod)
             e60 == calcEMAArray(UnitCloses, SlowPeriod)
             i   == Len(unit.candles)
         IN  /\ unit.trendDirection = "UP"
                  => /\ e15[i - 1] < e60[i - 1]
                     /\ unit.out.sl =
                          SetMin({UnitLows[x] : x \in ZoneBegin(e15, e60, i - 1)..i})
             /\ unit.trendDirection = "DOWN"
                  => /\ e60[i - 1] < e15[i - 1]
                     /\ unit.out.sl =
                          SetMax({UnitHighs[x] : x \in ZoneBegin(e60, e15, i - 1)..i})

\* C16: entries fire only on the crossing candle.  A signal is given only
\* under trend UP with EMA15 above EMA60 at the last candle and not above it
\* at the candle before, or under trend DOWN with EMA15 below EMA60 at the
\* last candle and not below it at the candle before; never under NEUTRAL.
C16_OnlyOnCrossingCandle ==
    (unit.fn = "analyze3mEntry" /\ unit.out.signal)
      => LET e15 == calcEMAArray(UnitCloses, FastPeriod)
             e60 == calcEMAArray(UnitCloses, SlowPeriod)
             i   == Len(unit.candles)
         IN  \/ /\ unit.trendDirection = "UP"
                /\ e15[i] > e60[i]
                /\ e15[i - 1] <= e60[i - 1]
             \/ /\ unit.trendDirection = "DOWN"
                /\ e15[i] < e60[i]
                /\ e15[i - 1] >= e60[i - 1]

\* C16 witness: under trend UP, a candle after the crossing candle, inside
\* the golden zone and with a death zone behind it, gives no signal.
C16_Witness ==
    /\ unit.fn = "analyze3mEntry"
    /\ unit.trendDirection = "UP"
    /\ ~unit.out.signal
    /\ LET e15 == calcEMAArray(UnitCloses, FastPeriod)
           e60 == calcEMAArray(UnitCloses, SlowPeriod)
           i   == Len(unit.candles)
       IN  /\ e15[i] > e60[i]
           /\ e15[i - 1] > e60[i - 1]
           /\ e15[i - 2] < e60[i - 2]

\* C17: the trend is the sign of EMA15 - EMA60 at the last candle.  For a
\* series of MinCandles candles or more the direction is UP when the
\* difference is positive, DOWN when negative and NEUTRAL when zero; the same
\* series with another open of its last candle has the same direction; the
\* timestamp is the last candle's.
C17_TrendBySignAlone ==
    (unit.fn = "analyze1HTrend" /\ Len(unit.candles) >= MinCandles)
      => LET e15 == calcEMAArray(UnitCloses, FastPeriod)
             e60 == calcEMAArray(UnitCloses, SlowPeriod)
             i   == Len(unit.candles)
         IN  /\ e15[i] > e60[i] => unit.out.direction = "UP"
             /\ e15[i] < e60[i] => unit.out.direction = "DOWN"
             /\ e15[i] = e60[i] => unit.out.direction = "NEUTRAL"
             /\ \A open \in LastOpens(unit.candles) :
                   analyze1HTrend(WithLastOpen(unit.candles, open)).direction
                     = unit.out.direction
             /\ unit.out.timestamp = unit.candles[i].ts

\* C17 witness: the trend is UP although the last candle falls.
C17_Witness ==
    /\ unit.fn = "analyze1HTrend"
    /\ unit.out.direction = "UP"
    /\ unit.candles[Len(unit.candles)].c < unit.candles[Len(unit.candles)].o
    /\ unit.out.timestamp = Len(unit.candles)

\* C18: no look-ahead in the EMA series.  Element i of the series of P is
\* element i of the series of the first i prices of P, so no price after
\* index i has a part in it.
C18_NoLookAhead ==
    unit.fn = "calcEMAArray"
      => \A i \in 1..Len(unit.prices) :
            unit.out[i] = calcEMAArray(SubSeq(unit.prices, 1, i), unit.period)[i]

\* C18 witness: a series whose later prices differ from its first, with a
\* first element that is still the first price.
C18_Witness ==
    /\ unit.fn = "calcEMAArray"
    /\ Len(unit.prices) = MaxPrices
    /\ unit.period = FastPeriod
    /\ unit.prices[2] # unit.prices[1]
    /\ unit.prices[MaxPrices] # unit.prices[2]
    /\ unit.out[1] = unit.prices[1] * EmaScale
    /\ unit.out[2] # unit.out[1]

\* the trend opposes the held position
Opposed ==
    \/ locals.trend1H.direction = "UP" /\ HeldSide # "long"
    \/ locals.trend1H.direction = "DOWN" /\ HeldSide = "long"

\* the stop candidate of the held position, in units of 1/PxScale cent
Candidate ==
    LET p == locals.primaryPosition[1]
        recent3m == Recent(marketData.candles3m)
    IN  IF HeldSide = "long"
        THEN LongTargetSL(p.avgPx, locals.currentPrice, recent3m)
        ELSE ShortTargetSL(p.avgPx, locals.currentPrice, recent3m)

\* the guard of the claim on the candidate: strictly better than the existing
\* stop (or none set, for a SHORT) and strictly on the safe side of the price
GuardPasses ==
    LET existing == ParseOrZero(locals.primaryPosition[1].slTriggerPx) * PxScale
        price    == locals.currentPrice * PxScale
    IN  /\ Len(marketData.candles3m) > 0
        /\ IF HeldSide = "long"
           THEN Candidate > existing /\ Candidate < price
           ELSE (existing = 0 \/ Candidate < existing) /\ Candidate > price

\* C19: stop acceptance guard.  With a position and no reversal, a stop is
\* proposed only when the candidate passes the guard, and it is the
\* candidate; when the candidate fails the guard the action is HOLD or an
\* add and no stop is emitted.
C19_StopGuard ==
    (Computed /\ locals.hasPosition /\ ~Opposed)
      => /\ locals.finalSL # <<>>
               => GuardPasses /\ locals.finalSL = <<toFixed2(Candidate)>>
         /\ ~GuardPasses
               => /\ locals.finalSL = <<>>
                  /\ locals.finalAction \in {"HOLD", "BUY", "SELL"}

\* C19 witness: a LONG whose candidate is below the price but not above the
\* committed stop; the action stays HOLD and no stop is emitted.
C19_Witness ==
    /\ Computed
    /\ locals.hasPosition
    /\ ~Opposed
    /\ HeldSide = "long"
    /\ Len(marketData.candles3m) > 0
    /\ Candidate < locals.currentPrice * PxScale
    /\ Candidate <= ParseOrZero(locals.primaryPosition[1].slTriggerPx) * PxScale
    /\ locals.finalAction = "HOLD"
    /\ locals.finalSL = <<>>

\* the lows and the highs of the last RecentCount lower-timeframe candles
LastLows ==
    LET n == Len(marketData.candles3m)
    IN  {marketData.candles3m[x].l : x \in {y \in 1..n : y > n - RecentCount}}

LastHighs ==
    LET n == Len(marketData.candles3m)
    IN  {marketData.candles3m[x].h : x \in {y \in 1..n : y > n - RecentCount}}

\* C20: breakeven-aware trail.  A stop proposed for a LONG is the candidate
\* printed with two decimals, where trail = lowest low of the last five
\* candles * 0.9995, breakeven = entry * 1.0012 and the candidate is
\* max(trail, breakeven) when the price is above breakeven and trail
\* otherwise; so above breakeven it is at least the breakeven, and it lies
\* strictly between 0 and the price.  For a SHORT trail = highest high *
\* 1.0005, breakeven = entry * 0.9988 and the candidate is min(trail,
\* breakeven) when the price is below breakeven.  Values in units of
\* 1/PxScale cent.
C20_BreakevenAwareTrail ==
    (Computed /\ locals.hasPosition /\ locals.finalSL # <<>>)
      => LET entry == locals.primaryPosition[1].avgPx
             price == locals.currentPrice * PxScale
         IN  IF HeldSide = "long"
             THEN LET trail == SetMin(LastLows) * 9995
                      breakeven == entry * 10012
                      cand == IF price > breakeven
                              THEN (IF trail > breakeven THEN trail ELSE breakeven)
                              ELSE trail
                  IN  /\ locals.finalSL = <<toFixed2(cand)>>
                      /\ price > breakeven => cand >= breakeven
                      /\ 0 < cand /\ cand < price
             ELSE LET trail == SetMax(LastHighs) * 10005
                      breakeven == entry * 9988
                      cand == IF price < breakeven
                              THEN (IF trail < breakeven THEN trail ELSE breakeven)
                              ELSE trail
                  IN  /\ locals.finalSL = <<toFixed2(cand)>>
                      /\ price < breakeven => cand <= breakeven
                      /\ cand > price

\* C20 witness: a LONG with the price above breakeven and the trail below
\* it; the proposed stop is the breakeven, not the trail.
C20_Witness ==
    /\ Computed
    /\ locals.hasPosition
    /\ HeldSide = "long"
    /\ locals.finalSL # <<>>
    /\ locals.currentPrice * PxScale > locals.primaryPosition[1].avgPx * 10012
    /\ SetMin(LastLows) * 9995 < locals.primaryPosition[1].avgPx * 10012
    /\ locals.finalSL = <<toFixed2(locals.primaryPosition[1].avgPx * 10012)>>

\* the computed action is an add to the held position
IsAdd == locals.finalAction \in {"BUY", "SELL"}

\* C21: pyramiding rule.  For a position that the trend does not oppose, the
\* action is an add if and only if the unrealized PnL is at least 5% of the
\* total equity (twenty times the PnL is at least the equity); the add is
\* BUY for a LONG and SELL for a SHORT, and its size fraction is "5%".
C21_PyramidingRule ==
    (Computed /\ locals.hasPosition /\ ~Opposed)
      => /\ IsAdd <=> locals.primaryPosition[1].upl * 20 >= locals.totalEquity
         /\ IsAdd => /\ locals.finalAction =
                           (IF HeldSide = "long" THEN "BUY" ELSE "SELL")
                     /\ locals.finalSize = "5%"

\* C21 witness: a SHORT under a trend that is not UP whose PnL is exactly 5%
\* of the equity; the action is SELL.
C21_Witness ==
    /\ Computed
    /\ locals.hasPosition
    /\ ~Opposed
    /\ HeldSide = "short"
    /\ locals.primaryPosition[1].upl * 20 = locals.totalEquity
    /\ locals.finalAction = "SELL"
    /\ locals.finalSize = "5%"

\* C22: stop ratcheting augments the add.  With a position that the trend
\* does not oppose and a stop candidate that passes the guard: when the PnL
\* is below the pyramiding threshold (the action so far is HOLD) the action
\* is UPDATE_TPSL with the candidate as stop and no size; when it meets the
\* threshold the action is still the add of the position's side with its
\* size fraction "5%" and the candidate attached as stop, and the returned
\* decision has the size of an add, computed from equity and price alone.
C22_StopAugmentsAdd ==
    (Computed /\ locals.hasPosition /\ ~Opposed /\ GuardPasses)
      => /\ locals.finalSL = <<toFixed2(Candidate)>>
         /\ IF locals.primaryPosition[1].upl * 20 >= locals.totalEquity
            THEN /\ locals.finalAction = (IF HeldSide = "long" THEN "BUY" ELSE "SELL")
                 /\ locals.finalSize = "5%"
                 /\ (Returned /\ aiResponse.kind = "content")
                      => /\ result.decision.action = locals.finalAction
                         /\ result.decision.trading_decision.stop_loss = locals.finalSL
                         /\ result.decision.size =
                               ContractSize(locals.totalEquity, locals.currentPrice)
            ELSE /\ locals.finalAction = "UPDATE_TPSL"
                 /\ locals.finalSize = "0"
                 /\ (Returned /\ aiResponse.kind = "content")
                      => /\ result.decision.action = "UPDATE_TPSL"
                         /\ result.decision.trading_decision.stop_loss = locals.finalSL
                         /\ result.decision.size = Num(0)

\* C22 witness: a returned add (BUY) for a LONG whose stop candidate passed
\* the guard; the decision carries both the size of the add and the stop.
C22_Witness ==
    /\ Returned
    /\ aiResponse.kind = "content"
    /\ locals.hasPosition
    /\ ~Opposed
    /\ HeldSide = "long"
    /\ GuardPasses
    /\ result.decision.action = "BUY"
    /\ result.decision.size # Num(0)
    /\ Len(result.decision.trading_decision.stop_loss) = 1

\* C23: no order against the trend.  In every decision composed from the
\* computed values, BUY is never emitted under a DOWN verdict and SELL never
\* under an UP verdict; without a position (an initial entry) BUY is emitted
\* only under UP and SELL only under DOWN.
C23_NoOrderAgainstTrend ==
    (Returned /\ aiResponse.kind = "content")
      => LET d == result.decision
             direction == locals.trend1H.direction
             buys  == d.action = "BUY" \/ d.trading_decision.action = "BUY"
             sells == d.action = "SELL" \/ d.trading_decision.action = "SELL"
         IN  /\ buys => direction # "DOWN"
             /\ sells => direction # "UP"
             /\ (buys /\ ~locals.hasPosition) => direction = "UP"
             /\ (sells /\ ~locals.hasPosition) => direction = "DOWN"

\* C23 witness: a returned SELL that adds to a SHORT while the verdict is
\* NEUTRAL.
C23_Witness ==
    /\ Returned
    /\ aiResponse.kind = "content"
    /\ locals.hasPosition
    /\ HeldSide = "short"
    /\ locals.trend1H.direction = "NEUTRAL"
    /\ result.decision.action = "SELL"

\* C24: shape of every returned decision.  The size is other than "0" only
\* when the action is BUY or SELL; UPDATE_TPSL carries a stop price; HOLD and
\* CLOSE carry none; and a BUY or SELL without a position (an initial entry)
\* carries the stop of the entry detector, printed with two decimals.
C24_DecisionShape ==
    Returned
      => LET d  == result.decision
             sl == d.trading_decision.stop_loss
         IN  /\ d.size # Num(0) => d.action \in {"BUY", "SELL"}
             /\ d.trading_decision.position_size # "0"
                  => d.trading_decision.action \in {"BUY", "SELL"}
             /\ d.action = "UPDATE_TPSL" => Len(sl) = 1
             /\ d.action \in {"HOLD", "CLOSE"} => sl = <<>>
             /\ (d.action \in {"BUY", "SELL"} /\ ~locals.hasPosition)
                  => /\ locals.entry3m.signal
                     /\ sl = <<toFixed2(locals.entry3m.sl * PxScale)>>

\* C24 witness: a returned initial entry (SELL without a position) that has
\* a size and carries the detector's stop.
C24_Witness ==
    /\ Returned
    /\ ~locals.hasPosition
    /\ result.decision.action = "SELL"
    /\ result.decision.size # Num(0)
    /\ locals.entry3m.sl > 0
    /\ result.decision.trading_decision.stop_loss = <<locals.entry3m.sl>>

\* C25: pyramiding is memoryless.  However many calls in a row have returned
\* an add, a call that finds a position with unrealized PnL of at least 5% of
\* the equity and a trend that does not oppose it returns an add again: the
\* action of the position's side, size fraction "5%", and the size of an add.
C25_PyramidingMemoryless ==
    (/\ Returned
     /\ aiResponse.kind = "content"
     /\ adds \in 0..MaxAdds
     /\ locals.hasPosition
     /\ ~Opposed
     /\ locals.primaryPosition[1].upl * 20 >= locals.totalEquity)
    => /\ result.decision.action = (IF HeldSide = "long" THEN "BUY" ELSE "SELL")
       /\ result.decision.trading_decision.position_size = "5%"
       /\ result.decision.size = ContractSize(locals.totalEquity, locals.currentPrice)

\* C25 witness: MaxAdds calls in a row have returned an add, and the next
\* call returns one more.
C25_Witness ==
    /\ adds = MaxAdds
    /\ ReturnedAdd
    /\ aiResponse.kind = "content"
    /\ locals.primaryPosition[1].upl * 20 >= locals.totalEquity
    /\ result.decision.trading_decision.position_size = "5%"

\* the stop the cycle proposes for the held position, in cents
ProposedStop == locals.finalSL[1]

\* the stop the held position already has, in cents (0 when none is set)
ExistingStop == ParseOrZero(locals.primaryPosition[1].slTriggerPx)

\* C26: rounding preserves the guard.  A stop proposed for a held position,
\* as printed with two decimals, is strictly above the existing stop and
\* strictly below the current price for a LONG, and strictly below the
\* existing stop (when one is set) and strictly above the current price for a
\* SHORT.
C26_RoundingPreservesGuard ==
    (Computed /\ locals.hasPosition /\ locals.finalSL # <<>>)
      => IF HeldSide = "long"
         THEN ProposedStop > ExistingStop /\ ProposedStop < locals.currentPrice
         ELSE /\ ExistingStop = 0 \/ ProposedStop < ExistingStop
              /\ ProposedStop > locals.currentPrice

\* the call ran without a ticker: currentPrice is parseFloat("0")
PriceMissing == Len(marketData.ticker) = 0

\* C27: a missing price is handled safely.  When the ticker is absent, a
\* decision composed from the computed values that orders BUY or SELL has a
\* size that is a finite number, and with an open position it proposes no
\* stop.
C27_MissingPriceSafe ==
    (Returned /\ aiResponse.kind = "content" /\ PriceMissing)
      => /\ result.decision.action \in {"BUY", "SELL"}
               => result.decision.size.k = "num"
         /\ locals.hasPosition
               => result.decision.trading_decision.stop_loss = <<>>

====
